---- MODULE Spec2Model ----
(***************************************************************************)
(* Model of bdot.py: the hex-cell rasterisation of line geometries         *)
(* (h3LineLatLng, processLineIntoH3Set, processOSMDataIntoH3Set), the      *)
(* per-unit diff (processTheme) and the batch loop (main).                *)
(*                                                                         *)
(* Geography.  A point is <<lon, lat>> on an integer lattice: the finite   *)
(* precision of the floats of the source becomes the lattice step, and     *)
(* (a + b) / 2 becomes the floor of the exact midpoint.  The h3 grid at    *)
(* its one fixed resolution is a hexagonal tiling in "brick" layout: rows  *)
(* of cells two lattice steps wide and one step high, every other row      *)
(* shifted by half a cell, so that each cell has six neighbours and three  *)
(* cells meet at every corner, as in a hexagon grid.  A cell is named by   *)
(* its axial coordinates <<q, r>>.                                         *)
(***************************************************************************)
EXTENDS Integers, Sequences, FiniteSets, TLC

\* Bounds of the model.
MaxX == 4
MaxY == 3
MaxNbh == 1
MaxDepth == 6

Points == (0..MaxX) \X (0..MaxY)

Abs(n) == IF n < 0 THEN -n ELSE n

Range(s) == {s[i] : i \in DOMAIN s}

Reverse(s) == [i \in 1..Len(s) |-> s[Len(s) + 1 - i]]

(***************************************************************************)
(* The h3 library, as bdot.py uses it.                                     *)
(***************************************************************************)

\* h3.geo_to_h3(lat, lng, H3_RESOLUTION): the cell holding a point.
geo_to_h3(lat, lng) ==
    LET row == lat
        col == (lng + (row % 2)) \div 2
    IN  <<col - ((row + (row % 2)) \div 2), row>>

\* h3.h3_distance: the number of cell-to-cell steps between two cells.
h3_distance(a, b) ==
    LET dq == a[1] - b[1]
        dr == a[2] - b[2]
    IN  (Abs(dq) + Abs(dr) + Abs(dq + dr)) \div 2

\* A k_ring that forgets its centre (h3.hex_ring instead of h3.k_ring).
k_ring_hollow(c, k) ==
    {d \in {<<c[1] + dq, c[2] + dr>> : dq \in (-k)..k, dr \in (-k)..k} :
        h3_distance(c, d) = k}

\* h3.k_ring(cell, k): every cell within k steps of the cell, itself included.
k_ring(c, k) ==
    {d \in {<<c[1] + dq, c[2] + dr>> : dq \in (-k)..k, dr \in (-k)..k} :
        h3_distance(c, d) <= k}

(***************************************************************************)
(* h3LineLatLng: the cells of one segment, by recursive bisection.         *)
(***************************************************************************)

startH3Of(start) == geo_to_h3(start[2], start[1])

\* Variants of the stop condition of the recursion (line 77).
sameCellOnly(startH3, endH3) == startH3 = endH3

withinTwoSteps(startH3, endH3) == h3_distance(startH3, endH3) <= 2

\* startH3 == endH3 or h3.h3_distance(startH3, endH3) == 1
sameOrAdjacent(startH3, endH3) ==
    startH3 = endH3 \/ h3_distance(startH3, endH3) = 1

\* A leaf that keeps the cell of its first point only.
leafCellsStartOnly(startH3, endH3) == {startH3}

\* return {startH3, endH3}
leafCells(startH3, endH3) == {startH3, endH3}

\* middle = ((start[0] + end[0]) / 2, (start[1] + end[1]) / 2)
middleOf(start, end) ==
    <<(start[1] + end[1]) \div 2, (start[2] + end[2]) \div 2>>

RECURSIVE h3LineLatLng(_, _)
h3LineLatLng(start, end) ==
    LET startH3 == startH3Of(start)
        endH3 == startH3Of(end)
    IN  IF sameOrAdjacent(startH3, endH3)
        THEN leafCells(startH3, endH3)
        ELSE LET middle == middleOf(start, end)
             IN  h3LineLatLng(start, middle) \cup h3LineLatLng(middle, end)

(***************************************************************************)
(* processLineIntoH3Set: the cells of a polyline, each widened by k_ring,  *)
(* added to the set handed in.                                             *)
(***************************************************************************)

RECURSIVE processLineFrom(_, _, _, _)
processLineFrom(line, i, result, neighbourhood_size) ==
    IF i >= Len(line)
    THEN result
    ELSE processLineFrom(
             line, i + 1,
             result \cup UNION {k_ring(point, neighbourhood_size) :
                                   point \in h3LineLatLng(line[i], line[i + 1])},
             neighbourhood_size)

processLineIntoH3Set(line, result, neighbourhood_size) ==
    processLineFrom(line, 1, result, neighbourhood_size)

\* processOSMDataIntoH3Set: elements that are not a LineString are skipped.
RECURSIVE processOSMDataFrom(_, _, _)
processOSMDataFrom(osmData, i, result) ==
    IF i > Len(osmData)
    THEN result
    ELSE IF osmData[i].geometry.type # "LineString"
         THEN processOSMDataFrom(osmData, i + 1, result)
         ELSE processOSMDataFrom(
                  osmData, i + 1,
                  processLineIntoH3Set(osmData[i].geometry.coordinates, result, 1))

processOSMDataIntoH3Set(osmData) == processOSMDataFrom(osmData, 1, {})

(***************************************************************************)
(* processTheme, lines 142-151: the loop over the source-B features.  A    *)
(* feature that is not a LineString is reported and skipped; a LineString  *)
(* whose own cells (no widening) share nothing with osmH3Set is kept.      *)
(***************************************************************************)

\* The loop with "break" where the source has "continue".
RECURSIVE matchFromBreak(_, _, _, _)
matchFromBreak(features, i, osmSet, outputFeatures) ==
    IF i > Len(features)
    THEN outputFeatures
    ELSE IF features[i].geometry.type # "LineString"
         THEN outputFeatures
         ELSE LET coords == features[i].geometry.coordinates
                  h3SetFeature == processLineIntoH3Set(coords, {}, 0)
                  shared == h3SetFeature \cap osmSet
              IN  matchFromBreak(
                      features, i + 1, osmSet,
                      IF Cardinality(shared) = 0
                      THEN Append(outputFeatures, features[i])
                      ELSE outputFeatures)

matchFeaturesBreak(features, osmSet) == matchFromBreak(features, 1, osmSet, <<>>)

RECURSIVE matchFrom(_, _, _, _)
matchFrom(features, i, osmSet, outputFeatures) ==
    IF i > Len(features)
    THEN outputFeatures
    ELSE IF features[i].geometry.type # "LineString"
         THEN matchFrom(features, i + 1, osmSet, outputFeatures)
         ELSE LET coords == features[i].geometry.coordinates
                  h3SetFeature == processLineIntoH3Set(coords, {}, 0)
                  shared == h3SetFeature \cap osmSet
              IN  matchFrom(
                      features, i + 1, osmSet,
                      IF Cardinality(shared) = 0
                      THEN Append(outputFeatures, features[i])
                      ELSE outputFeatures)

matchFeatures(features, osmSet) == matchFrom(features, 1, osmSet, <<>>)

\* The calls of processLineIntoH3Set the loop makes (line 148).
lineFeatureCount(features) ==
    Cardinality({i \in DOMAIN features : features[i].geometry.type = "LineString"})

(***************************************************************************)
(* The batch: two of the themes and two of the regions of the source, and  *)
(* what the two providers may answer.                                      *)
(***************************************************************************)

THEMES == <<"roads", "noise_barriers">>

terytCodes == <<"1465", "2261">>

Units == Range(THEMES) \X Range(terytCodes)

Feature(id, type, coordinates) ==
    [id |-> id, geometry |-> [type |-> type, coordinates |-> coordinates]]

\* Source A (Overpass): a node, a short way inside one cell, a long way.
osmNode == Feature("osm-node", "Point", <<<<4, 3>>>>)

osmShort == Feature("osm-short", "LineString", <<<<0, 0>>, <<1, 0>>>>)

osmLong == Feature("osm-long", "LineString", <<<<0, 3>>, <<4, 3>>, <<4, 2>>>>)

OSMResponses == {<<osmNode, osmShort>>, <<osmLong>>}

\* Source B (BDOT): a point, a line equal to osmShort, a line one cell away
\* from it, a line far from it (under osmNode and osmLong), a line of one
\* point, a line equal to osmLong.
bdotPoint == Feature("bdot-point", "Point", <<<<0, 0>>>>)

bdotShort == Feature("bdot-short", "LineString", <<<<0, 0>>, <<1, 0>>>>)

bdotNear == Feature("bdot-near", "LineString", <<<<2, 0>>, <<3, 0>>>>)

bdotFar == Feature("bdot-far", "LineString", <<<<3, 3>>, <<4, 3>>>>)

bdotOnePoint == Feature("bdot-one-point", "LineString", <<<<0, 0>>>>)

bdotLong == Feature("bdot-long", "LineString", <<<<0, 3>>, <<4, 3>>, <<4, 2>>>>)

BdotResponses ==
    {<<bdotPoint, bdotShort, bdotFar>>, <<bdotNear, bdotOnePoint, bdotLong>>}

\* A file of the directory "missing": absent, or a feature collection.
NoFile == [exists |-> FALSE, features |-> <<>>]

FeatureCollection(features) == [exists |-> TRUE, features |-> features]

\* An artifact left by an earlier run.
StaleArtifact ==
    FeatureCollection(<<Feature("bdot-old", "LineString", <<<<3, 1>>, <<4, 1>>>>)>>)

(***************************************************************************)
(* State.  Three specifications share the module: Spec runs main over the  *)
(* batch, SpecRaster runs h3LineLatLng on one segment as an explicit stack *)
(* of pending calls, SpecLine applies processLineIntoH3Set to one          *)
(* geometry.  Each leaves the variables of the other two at rest.          *)
(***************************************************************************)
VARIABLES
    \* processLineIntoH3Set on one geometry
    line, nbh, cov, lPc,
    \* h3LineLatLng on one segment
    rStart, rEnd, rStack, rCells, rPc,
    \* the files: missing/<theme>-<teryt>.geojson now and when the run
    \* began, the archives of bdot-data, index.html
    missing, missing0, bdotZips, indexWritten,
    \* main: where it is, and the region and theme of its loops
    mainPc, ri, ti,
    \* processTheme, per unit: its state, its two fetches (coroutines of
    \* asyncio.gather), what they returned, which returned first, how many
    \* times each was started, and the calls of the matcher
    unitState, taskOSM, taskBdot, osmData, osmH3Set, geojsonBdotData,
    firstDone, fetchesOSM, fetchesBdot, matcherCalls

lineVars == <<line, nbh, cov, lPc>>

rasterVars == <<rStart, rEnd, rStack, rCells, rPc>>

fileVars == <<missing, missing0, bdotZips, indexWritten>>

mainVars == <<mainPc, ri, ti>>

unitVars ==
    <<unitState, taskOSM, taskBdot, osmData, osmH3Set, geojsonBdotData,
      firstDone, fetchesOSM, fetchesBdot, matcherCalls>>

batchVars == <<fileVars, mainVars, unitVars>>

vars == <<lineVars, rasterVars, batchVars>>

BatchAtRest ==
    /\ missing = [u \in Units |-> NoFile]
    /\ missing0 = missing
    /\ bdotZips = {}
    /\ indexWritten = FALSE
    /\ mainPc = "rest"
    /\ ri = 1
    /\ ti = 1
    /\ unitState = [u \in Units |-> "Pending"]
    /\ taskOSM = [u \in Units |-> "none"]
    /\ taskBdot = [u \in Units |-> "none"]
    /\ osmData = [u \in Units |-> <<>>]
    /\ osmH3Set = [u \in Units |-> {}]
    /\ geojsonBdotData = [u \in Units |-> <<>>]
    /\ firstDone = [u \in Units |-> "none"]
    /\ fetchesOSM = [u \in Units |-> 0]
    /\ fetchesBdot = [u \in Units |-> 0]
    /\ matcherCalls = [u \in Units |-> 0]

LineAtRest == line = <<>> /\ nbh = 0 /\ cov = {} /\ lPc = "rest"

RasterAtRest ==
    /\ rStart = <<0, 0>>
    /\ rEnd = <<0, 0>>
    /\ rStack = <<>>
    /\ rCells = {}
    /\ rPc = "rest"

(***************************************************************************)
(* SpecLine: processLineIntoH3Set(line, set(), nbh) for every geometry of  *)
(* two or three lattice points.                                            *)
(***************************************************************************)

Lines ==
    {<<a, b>> : a \in Points, b \in Points}
        \cup {<<a, b, c>> : a \in Points, b \in Points, c \in Points}

InitLine ==
    /\ line \in Lines
    /\ nbh \in 0..MaxNbh
    /\ cov = {}
    /\ lPc = "start"
    /\ RasterAtRest
    /\ BatchAtRest

lineCoverage ==
    /\ lPc = "start"
    /\ cov' = processLineIntoH3Set(line, {}, nbh)
    /\ lPc' = "done"
    /\ UNCHANGED <<line, nbh, rasterVars, batchVars>>

NextLine == lineCoverage

SpecLine == InitLine /\ [][NextLine]_vars

(***************************************************************************)
(* SpecRaster: the calls of h3LineLatLng(rStart, rEnd), depth first.       *)
(* rStack holds the segments still to be rasterised, the call in progress  *)
(* on top (at the end); rCells collects what the finished calls returned.  *)
(* Python ends a recursion deeper than its limit; MaxDepth stands for it.  *)
(***************************************************************************)

InitRaster ==
    /\ rStart \in Points
    /\ rEnd \in Points
    /\ rStack = <<<<rStart, rEnd>>>>
    /\ rCells = {}
    /\ rPc = "call"
    /\ LineAtRest
    /\ BatchAtRest

rTop == rStack[Len(rStack)]

rPop == SubSeq(rStack, 1, Len(rStack) - 1)

\* Line 77-78: the two cells are the same or adjacent; return them.
rasterLeaf ==
    /\ rPc = "call"
    /\ rStack # <<>>
    /\ sameOrAdjacent(startH3Of(rTop[1]), startH3Of(rTop[2]))
    /\ rCells' = rCells \cup leafCells(startH3Of(rTop[1]), startH3Of(rTop[2]))
    /\ rStack' = rPop
    /\ UNCHANGED <<rStart, rEnd, rPc, lineVars, batchVars>>

\* Line 79-80: bisect at the middle and rasterise both halves.
rasterBisect ==
    /\ rPc = "call"
    /\ rStack # <<>>
    /\ ~sameOrAdjacent(startH3Of(rTop[1]), startH3Of(rTop[2]))
    /\ Len(rStack) < MaxDepth
    /\ LET middle == middleOf(rTop[1], rTop[2])
       IN  rStack' = rPop \o <<<<middle, rTop[2]>>, <<rTop[1], middle>>>>
    /\ UNCHANGED <<rStart, rEnd, rCells, rPc, lineVars, batchVars>>

\* The outermost call returns.
rasterReturn ==
    /\ rPc = "call"
    /\ rStack = <<>>
    /\ rPc' = "done"
    /\ UNCHANGED <<rStart, rEnd, rStack, rCells, lineVars, batchVars>>

NextRaster == rasterLeaf \/ rasterBisect \/ rasterReturn

SpecRaster == InitRaster /\ [][NextRaster]_vars /\ WF_vars(NextRaster)

(***************************************************************************)
(* Spec: main and processTheme.  main is one thread of control; the only   *)
(* concurrency is inside processTheme, between the two coroutines handed   *)
(* to asyncio.gather.  Each coroutine is one step from "running" to "done" *)
(* or "failed".  getOSMData suspends on its request and getBdotData has no *)
(* suspension point; the model lets either of them end first, which covers *)
(* the order the event loop gives them.  osmData, firstDone, fetchesOSM,   *)
(* fetchesBdot, matcherCalls and missing0 record what happened; the        *)
(* program does not read them.                                             *)
(***************************************************************************)

Init ==
    /\ missing0 \in [Units -> {NoFile, StaleArtifact}]
    /\ missing = missing0
    /\ bdotZips \in SUBSET Range(terytCodes)
    /\ indexWritten = FALSE
    /\ mainPc = "download"
    /\ ri = 1
    /\ ti = 1
    /\ unitState = [u \in Units |-> "Pending"]
    /\ taskOSM = [u \in Units |-> "none"]
    /\ taskBdot = [u \in Units |-> "none"]
    /\ osmData = [u \in Units |-> <<>>]
    /\ osmH3Set = [u \in Units |-> {}]
    /\ geojsonBdotData = [u \in Units |-> <<>>]
    /\ firstDone = [u \in Units |-> "none"]
    /\ fetchesOSM = [u \in Units |-> 0]
    /\ fetchesBdot = [u \in Units |-> 0]
    /\ matcherCalls = [u \in Units |-> 0]
    /\ LineAtRest
    /\ RasterAtRest

\* The unit main is at: processTheme(theme, teryt).
CurUnit == <<THEMES[ti], terytCodes[ri]>>

\* The place of a unit in main's two loops, regions outside, themes inside.
UnitIndex(u) ==
    LET r == CHOOSE k \in DOMAIN terytCodes : terytCodes[k] = u[2]
        t == CHOOSE k \in DOMAIN THEMES : THEMES[k] = u[1]
    IN  (r - 1) * Len(THEMES) + t

\* main, lines 184-188: after processTheme returns, the next theme, the next
\* region (downloadBdot first), or index.html.
nextUnit ==
    IF ti < Len(THEMES)
    THEN mainPc' = "theme" /\ ti' = ti + 1 /\ ri' = ri
    ELSE IF ri < Len(terytCodes)
         THEN mainPc' = "download" /\ ri' = ri + 1 /\ ti' = 1
         ELSE mainPc' = "index" /\ UNCHANGED <<ri, ti>>

\* downloadBdot, the archive is already there.
downloadBdotCached ==
    /\ mainPc = "download"
    /\ terytCodes[ri] \in bdotZips
    /\ mainPc' = "theme"
    /\ UNCHANGED <<ri, ti, fileVars, unitVars, lineVars, rasterVars>>

\* downloadBdot, the archive is fetched, written and unpacked.
downloadBdotFetched ==
    /\ mainPc = "download"
    /\ terytCodes[ri] \notin bdotZips
    /\ bdotZips' = bdotZips \cup {terytCodes[ri]}
    /\ mainPc' = "theme"
    /\ UNCHANGED <<ri, ti, missing, missing0, indexWritten, unitVars,
                   lineVars, rasterVars>>

\* downloadBdot, raise_for_status raises: nothing in main catches it.
downloadBdotFails ==
    /\ mainPc = "download"
    /\ terytCodes[ri] \notin bdotZips
    /\ mainPc' = "crashed"
    /\ UNCHANGED <<ri, ti, fileVars, unitVars, lineVars, rasterVars>>

\* A test of the output file that never finds it.
outputFileNeverExists(u) == FALSE

\* outputFile.exists()
outputFileExists(u) == missing[u].exists

\* processTheme, lines 135-136: the output file exists, return.
processThemeSkip ==
    /\ mainPc = "theme"
    /\ unitState[CurUnit] = "Pending"
    /\ outputFileExists(CurUnit)
    /\ unitState' = [unitState EXCEPT ![CurUnit] = "Skipped"]
    /\ nextUnit
    /\ UNCHANGED <<fileVars, taskOSM, taskBdot, osmData, osmH3Set,
                   geojsonBdotData, firstDone, fetchesOSM, fetchesBdot,
                   matcherCalls, lineVars, rasterVars>>

\* processTheme, lines 138-140: asyncio.gather starts both fetches.
processThemeGather ==
    /\ mainPc = "theme"
    /\ unitState[CurUnit] = "Pending"
    /\ ~outputFileExists(CurUnit)
    /\ unitState' = [unitState EXCEPT ![CurUnit] = "Fetching"]
    /\ taskOSM' = [taskOSM EXCEPT ![CurUnit] = "running"]
    /\ taskBdot' = [taskBdot EXCEPT ![CurUnit] = "running"]
    /\ fetchesOSM' = [fetchesOSM EXCEPT ![CurUnit] = @ + 1]
    /\ fetchesBdot' = [fetchesBdot EXCEPT ![CurUnit] = @ + 1]
    /\ UNCHANGED <<fileVars, mainVars, osmData, osmH3Set, geojsonBdotData,
                   firstDone, matcherCalls, lineVars, rasterVars>>

\* getOSMData returns: the Overpass answer, turned into its cell set.
getOSMDataReturns(u) ==
    /\ taskOSM[u] = "running"
    /\ \E response \in OSMResponses :
        /\ osmData' = [osmData EXCEPT ![u] = response]
        /\ osmH3Set' = [osmH3Set EXCEPT ![u] = processOSMDataIntoH3Set(response)]
    /\ taskOSM' = [taskOSM EXCEPT ![u] = "done"]
    /\ firstDone' =
        [firstDone EXCEPT ![u] = IF taskBdot[u] = "done" THEN @ ELSE "osm"]
    /\ UNCHANGED <<fileVars, mainVars, unitState, taskBdot, geojsonBdotData,
                   fetchesOSM, fetchesBdot, matcherCalls, lineVars, rasterVars>>

\* getOSMData raises (the request, raise_for_status, the parse).
getOSMDataRaises(u) ==
    /\ taskOSM[u] = "running"
    /\ taskOSM' = [taskOSM EXCEPT ![u] = "failed"]
    /\ UNCHANGED <<fileVars, mainVars, unitState, taskBdot, osmData, osmH3Set,
                   geojsonBdotData, firstDone, fetchesOSM, fetchesBdot,
                   matcherCalls, lineVars, rasterVars>>

\* getBdotData returns the features of the layer.
getBdotDataReturns(u) ==
    /\ taskBdot[u] = "running"
    /\ \E response \in BdotResponses :
        geojsonBdotData' = [geojsonBdotData EXCEPT ![u] = response]
    /\ taskBdot' = [taskBdot EXCEPT ![u] = "done"]
    /\ firstDone' =
        [firstDone EXCEPT ![u] = IF taskOSM[u] = "done" THEN @ ELSE "bdot"]
    /\ UNCHANGED <<fileVars, mainVars, unitState, taskOSM, osmData, osmH3Set,
                   fetchesOSM, fetchesBdot, matcherCalls, lineVars, rasterVars>>

\* getBdotData raises (no extract for the layer, an unreadable file).
getBdotDataRaises(u) ==
    /\ taskBdot[u] = "running"
    /\ taskBdot' = [taskBdot EXCEPT ![u] = "failed"]
    /\ UNCHANGED <<fileVars, mainVars, unitState, taskOSM, osmData, osmH3Set,
                   geojsonBdotData, firstDone, fetchesOSM, fetchesBdot,
                   matcherCalls, lineVars, rasterVars>>

\* A gather that hands over as soon as one of the two has returned.
gatherFirstCompleted(osm, bdot) == osm = "done" \/ bdot = "done"

\* asyncio.gather has its results: both coroutines have returned.
gatherDone(osm, bdot) == osm = "done" /\ bdot = "done"

\* processTheme, lines 138-154: gather hands over both results; the loop
\* over the features and the write of the output file follow without a
\* suspension point, and processTheme returns to main.
processThemeDiff ==
    /\ mainPc = "theme"
    /\ unitState[CurUnit] = "Fetching"
    /\ gatherDone(taskOSM[CurUnit], taskBdot[CurUnit])
    /\ LET outputFeatures ==
               matchFeatures(geojsonBdotData[CurUnit], osmH3Set[CurUnit])
       IN  missing' = [missing EXCEPT ![CurUnit] = FeatureCollection(outputFeatures)]
    /\ matcherCalls' =
        [matcherCalls EXCEPT ![CurUnit] = @ + lineFeatureCount(geojsonBdotData[CurUnit])]
    /\ unitState' = [unitState EXCEPT ![CurUnit] = "Diffed"]
    /\ nextUnit
    /\ UNCHANGED <<missing0, bdotZips, indexWritten, taskOSM, taskBdot, osmData,
                   osmH3Set, geojsonBdotData, firstDone, fetchesOSM, fetchesBdot,
                   lineVars, rasterVars>>

\* What asyncio.run does to a coroutine still running when main ends.
cancelled(task) == IF task = "running" THEN "cancelled" ELSE task

\* A failure that main catches: the unit is given up and the loop goes on.
processThemeRaisesCaught(u) ==
    /\ mainPc = "theme"
    /\ u = CurUnit
    /\ unitState[u] = "Fetching"
    /\ taskOSM[u] = "failed" \/ taskBdot[u] = "failed"
    /\ unitState' = [unitState EXCEPT ![u] = "Failed"]
    /\ nextUnit
    /\ taskOSM' = [taskOSM EXCEPT ![u] = cancelled(@)]
    /\ taskBdot' = [taskBdot EXCEPT ![u] = cancelled(@)]
    /\ UNCHANGED <<fileVars, osmData, osmH3Set, geojsonBdotData, firstDone,
                   fetchesOSM, fetchesBdot, matcherCalls, lineVars, rasterVars>>

\* A failure after which the output file is written all the same.
processThemeRaisesWrites(u) ==
    /\ mainPc = "theme"
    /\ u = CurUnit
    /\ unitState[u] = "Fetching"
    /\ taskOSM[u] = "failed" \/ taskBdot[u] = "failed"
    /\ unitState' = [unitState EXCEPT ![u] = "Failed"]
    /\ mainPc' = "crashed"
    /\ missing' = [missing EXCEPT ![u] = FeatureCollection(<<>>)]
    /\ taskOSM' = [taskOSM EXCEPT ![u] = cancelled(@)]
    /\ taskBdot' = [taskBdot EXCEPT ![u] = cancelled(@)]
    /\ UNCHANGED <<ri, ti, missing0, bdotZips, indexWritten, osmData, osmH3Set,
                   geojsonBdotData, firstDone, fetchesOSM, fetchesBdot,
                   matcherCalls, lineVars, rasterVars>>

\* processTheme, line 138: gather raises the first exception of the two;
\* processTheme does not catch it, main (line 187) does not, asyncio.run
\* (line 197) cancels what still runs and the program ends.
processThemeRaises(u) ==
    /\ mainPc = "theme"
    /\ u = CurUnit
    /\ unitState[u] = "Fetching"
    /\ taskOSM[u] = "failed" \/ taskBdot[u] = "failed"
    /\ unitState' = [unitState EXCEPT ![u] = "Failed"]
    /\ mainPc' = "crashed"
    /\ taskOSM' = [taskOSM EXCEPT ![u] = cancelled(@)]
    /\ taskBdot' = [taskBdot EXCEPT ![u] = cancelled(@)]
    /\ UNCHANGED <<ri, ti, fileVars, osmData, osmH3Set, geojsonBdotData,
                   firstDone, fetchesOSM, fetchesBdot, matcherCalls, lineVars,
                   rasterVars>>

\* main, lines 188-192: index.html.
writeIndex ==
    /\ mainPc = "index"
    /\ indexWritten' = TRUE
    /\ mainPc' = "done"
    /\ UNCHANGED <<ri, ti, missing, missing0, bdotZips, unitVars, lineVars,
                   rasterVars>>

Next ==
    \/ downloadBdotCached
    \/ downloadBdotFetched
    \/ downloadBdotFails
    \/ processThemeSkip
    \/ processThemeGather
    \/ \E u \in Units : getOSMDataReturns(u)
    \/ \E u \in Units : getOSMDataRaises(u)
    \/ \E u \in Units : getBdotDataReturns(u)
    \/ \E u \in Units : getBdotDataRaises(u)
    \/ processThemeDiff
    \/ \E u \in Units : processThemeRaises(u)
    \/ writeIndex

Spec == Init /\ [][Next]_vars

(***************************************************************************)
(* Properties.                                                             *)
(***************************************************************************)

\* The grid is fine enough: neighbouring lattice points lie in the same cell
\* or in adjacent cells.
AdjacentPointsAdjacentCells ==
    \A a \in Points, b \in Points :
        (Abs(a[1] - b[1]) <= 1 /\ Abs(a[2] - b[2]) <= 1)
            => sameOrAdjacent(startH3Of(a), startH3Of(b))

\* The stack of SpecRaster computes what the recursive definition does.
RasterAgrees == rPc = "done" => rCells = h3LineLatLng(rStart, rEnd)

\* The coverage of a geometry as the specification words it: the cells of
\* every consecutive pair of points, each widened by the dilation radius.
lineCoverageOf(geometry, dilationRadius) ==
    UNION {k_ring(c, dilationRadius) :
              c \in UNION {h3LineLatLng(geometry[i], geometry[i + 1]) :
                              i \in 1..(Len(geometry) - 1)}}

\* The authoritative set: the union of the coverages, dilation 1, of the
\* line geometries of a source-A answer.
authoritativeOf(osm) ==
    UNION {lineCoverageOf(osm[j].geometry.coordinates, 1) :
              j \in {k \in DOMAIN osm : osm[k].geometry.type = "LineString"}}

IsLine(feature) == feature.geometry.type = "LineString"

\* The place main is at in its two loops.
MainIndex == (ri - 1) * Len(THEMES) + ti

\* C1: the diff stage of a unit (the matcher calls, the write of the output
\* file, the state Diffed) has happened only if both fetches of the unit
\* have returned; one returned fetch is never enough.
StrictJoin ==
    \A u \in Units :
        (unitState[u] = "Diffed" \/ matcherCalls[u] > 0 \/ missing[u] # missing0[u])
            => (taskOSM[u] = "done" /\ taskBdot[u] = "done")

\* A unit diffed after source A returned first, another after source B
\* returned first, and a third waiting with one fetch back and nothing diffed.
StrictJoinWitness ==
    \E u \in Units, v \in Units, w \in Units :
        /\ unitState[u] = "Diffed" /\ firstDone[u] = "osm"
        /\ unitState[v] = "Diffed" /\ firstDone[v] = "bdot"
        /\ unitState[w] = "Fetching"
        /\ taskOSM[w] = "done"
        /\ taskBdot[w] = "running"
        /\ missing[w] = NoFile

\* C2: a unit whose output file existed when the run began is skipped as
\* soon as main reaches it; no fetch is started and no matcher call made
\* for it, its file stays as it was, and only such units are skipped,
\* whatever else holds (the archive of the region present or not).
SkipExisting ==
    \A u \in Units :
        /\ missing0[u].exists =>
            /\ unitState[u] \in {"Pending", "Skipped"}
            /\ UnitIndex(u) < MainIndex => unitState[u] = "Skipped"
            /\ mainPc \in {"index", "done"} => unitState[u] = "Skipped"
            /\ taskOSM[u] = "none" /\ taskBdot[u] = "none"
            /\ fetchesOSM[u] = 0 /\ fetchesBdot[u] = 0
            /\ matcherCalls[u] = 0
            /\ missing[u] = missing0[u]
        /\ unitState[u] = "Skipped" => missing0[u].exists

\* A skipped unit with its old file, beside a diffed unit of the same
\* region.
SkipExistingWitness ==
    \E u \in Units, v \in Units :
        /\ unitState[u] = "Skipped"
        /\ missing[u] = StaleArtifact
        /\ unitState[v] = "Diffed"
        /\ u[2] = v[2]

\* C3, as claimed: when the run has ended, every unit other than a failed
\* one is Diffed or Skipped.
OtherUnitsProceed ==
    mainPc \in {"done", "crashed"} =>
        \A u \in Units : unitState[u] = "Failed" =>
            \A v \in Units \ {u} : unitState[v] \in {"Diffed", "Skipped"}

\* C3, amended: a failure of a unit ends the run.  The units before it keep
\* their outcome, Diffed or Skipped; the units after it are not processed:
\* they stay Pending, with no fetch started and their files as they were.
FailureEndsBatch ==
    \A u \in Units : unitState[u] = "Failed" =>
        /\ mainPc = "crashed"
        /\ MainIndex = UnitIndex(u)
        /\ \A v \in Units :
            /\ UnitIndex(v) < UnitIndex(u) => unitState[v] \in {"Diffed", "Skipped"}
            /\ UnitIndex(v) > UnitIndex(u) =>
                /\ unitState[v] = "Pending"
                /\ fetchesOSM[v] = 0 /\ fetchesBdot[v] = 0
                /\ missing[v] = missing0[v]

\* A failed unit with a diffed unit before it and a unit without output
\* file after it.
FailureEndsBatchWitness ==
    \E u \in Units, v \in Units, w \in Units :
        /\ unitState[u] = "Failed"
        /\ UnitIndex(v) < UnitIndex(u) /\ unitState[v] = "Diffed"
        /\ UnitIndex(w) > UnitIndex(u) /\ ~missing0[w].exists

\* C4: once a fetch of a unit has failed, the unit has no output file, none
\* of its features was matched, and each of its fetches was started exactly
\* once.
NoArtifactOnFailure ==
    \A u \in Units :
        (taskOSM[u] = "failed" \/ taskBdot[u] = "failed") =>
            /\ ~missing[u].exists
            /\ matcherCalls[u] = 0
            /\ fetchesOSM[u] = 1 /\ fetchesBdot[u] = 1
            /\ unitState[u] \in {"Fetching", "Failed"}

\* The run has ended on a unit whose source-A fetch failed after source B
\* had returned its features.
NoArtifactOnFailureWitness ==
    \E u \in Units :
        /\ unitState[u] = "Failed"
        /\ mainPc = "crashed"
        /\ taskOSM[u] = "failed"
        /\ taskBdot[u] = "done"
        /\ Len(geojsonBdotData[u]) > 0

\* C5: the output file of a diffed unit holds exactly the source-B features
\* that are lines and whose coverage (dilation 0) shares no cell with the
\* authoritative set; features that are not lines are in no outcome and the
\* features after them are still classified.
ExactlyMissing ==
    \A u \in Units : unitState[u] = "Diffed" =>
        /\ missing[u].exists
        /\ Range(missing[u].features) \subseteq Range(geojsonBdotData[u])
        /\ \A i \in DOMAIN geojsonBdotData[u] :
            LET feature == geojsonBdotData[u][i]
            IN  feature \in Range(missing[u].features) <=>
                    /\ IsLine(feature)
                    /\ lineCoverageOf(feature.geometry.coordinates, 0)
                           \cap authoritativeOf(osmData[u]) = {}

\* Behind a point feature, one line found present and one found missing,
\* the latter lying under a source-A element that is not a line.
ExactlyMissingWitness ==
    \E u \in Units :
        /\ unitState[u] = "Diffed"
        /\ osmData[u] = <<osmNode, osmShort>>
        /\ geojsonBdotData[u] = <<bdotPoint, bdotShort, bdotFar>>
        /\ missing[u].features = <<bdotFar>>

\* C6: two diffed units that received the same source-A answer and the same
\* source-B answer have the same output, whichever fetch returned first.
SameInputsSameOutput ==
    \A u \in Units, v \in Units :
        (/\ unitState[u] = "Diffed" /\ unitState[v] = "Diffed"
         /\ taskOSM[u] = "done" /\ taskBdot[u] = "done"
         /\ taskOSM[v] = "done" /\ taskBdot[v] = "done"
         /\ osmData[u] = osmData[v]
         /\ geojsonBdotData[u] = geojsonBdotData[v])
            => missing[u] = missing[v]

\* Two diffed units with equal answers, source A first in one and source B
\* first in the other, and an output that is not empty.
SameInputsSameOutputWitness ==
    \E u \in Units, v \in Units :
        /\ unitState[u] = "Diffed" /\ unitState[v] = "Diffed"
        /\ firstDone[u] = "osm" /\ firstDone[v] = "bdot"
        /\ osmData[u] = osmData[v]
        /\ geojsonBdotData[u] = geojsonBdotData[v]
        /\ missing[u].features # <<>>

\* C7: in a diffed unit, a source-B line of two points or more that has the
\* point sequence of a source-A line is not in the output; its coverage
\* (dilation 0) is not empty and lies inside the coverage (dilation 1) of
\* that source-A line.
CoincidentIsPresent ==
    \A u \in Units : unitState[u] = "Diffed" =>
        \A i \in DOMAIN geojsonBdotData[u], j \in DOMAIN osmData[u] :
            LET feature == geojsonBdotData[u][i]
                element == osmData[u][j]
            IN  (/\ IsLine(feature) /\ IsLine(element)
                 /\ feature.geometry.coordinates = element.geometry.coordinates
                 /\ Len(feature.geometry.coordinates) >= 2)
                    => /\ feature \notin Range(missing[u].features)
                       /\ lineCoverageOf(feature.geometry.coordinates, 0) # {}
                       /\ lineCoverageOf(feature.geometry.coordinates, 0)
                              \subseteq lineCoverageOf(element.geometry.coordinates, 1)

\* Both coincident pairs of the answers, each in a diffed unit: the line
\* inside one cell and the line of three points.
CoincidentIsPresentWitness ==
    \E u \in Units, v \in Units :
        /\ unitState[u] = "Diffed" /\ unitState[v] = "Diffed"
        /\ osmShort \in Range(osmData[u]) /\ bdotShort \in Range(geojsonBdotData[u])
        /\ osmLong \in Range(osmData[v]) /\ bdotLong \in Range(geojsonBdotData[v])

\* C8: processLineIntoH3Set from the empty set gives the same set for a
\* geometry and for the geometry reversed, for every neighbourhood size, and
\* h3LineLatLng gives the same cells for a segment and for the segment
\* reversed.
ReversalSymmetry ==
    lPc = "done" =>
        /\ cov = processLineIntoH3Set(Reverse(line), {}, nbh)
        /\ \A i \in 1..(Len(line) - 1) :
            h3LineLatLng(line[i], line[i + 1]) = h3LineLatLng(line[i + 1], line[i])

\* A geometry of three points that is not its own reverse, with a segment
\* that had to be bisected, covered with neighbourhood size 1.
ReversalSymmetryWitness ==
    /\ lPc = "done"
    /\ Len(line) = 3
    /\ line # Reverse(line)
    /\ nbh = 1
    /\ ~sameOrAdjacent(startH3Of(line[1]), startH3Of(line[2]))
    /\ Cardinality(cov) > 12

\* C9: every run of h3LineLatLng ends: the outermost call returns.
Terminates == <>(rPc = "done")

\* A call that returned after bisecting, its ends four cells apart or more.
TerminatesWitness ==
    /\ rPc = "done"
    /\ h3_distance(startH3Of(rStart), startH3Of(rEnd)) >= 4
    /\ Cardinality(rCells) >= 5

\* The cells of a set that can be reached from the cells seen, through
\* steps between adjacent cells inside the set.
RECURSIVE reachableFrom(_, _)
reachableFrom(cells, seen) ==
    LET more == {c \in cells \ seen : \E d \in seen : h3_distance(c, d) = 1}
    IN  IF more = {} THEN seen ELSE reachableFrom(cells, seen \cup more)

\* C10: the set h3LineLatLng returns holds the cell of the start, the cell
\* of the end, and no cell that cannot be reached from the cell of the
\* start through adjacent cells of the set.
NoGap ==
    rPc = "done" =>
        /\ startH3Of(rStart) \in rCells
        /\ startH3Of(rEnd) \in rCells
        /\ reachableFrom(rCells, {startH3Of(rStart)}) = rCells

\* A returned segment that runs across rows and columns, its ends three
\* cells apart or more.
NoGapWitness ==
    /\ rPc = "done"
    /\ rStart[1] # rEnd[1]
    /\ rStart[2] # rEnd[2]
    /\ h3_distance(startH3Of(rStart), startH3Of(rEnd)) >= 3
    /\ Cardinality(rCells) >= 4
====
